---- MODULE Spec2Model ----
(***************************************************************************)
(* Krueger Secomat integration for Home Assistant: the API client          *)
(* (api.py), the data update coordinator (coordinator.py), the config      *)
(* entry lifecycle (__init__.py) and the switch / select entities          *)
(* (switch.py, select.py).                                                 *)
(*                                                                         *)
(* JSON objects are functions from field names to values; a field keeps    *)
(* one type of value wherever it occurs (type, status, serial_number are   *)
(* strings, payload is an object, the other fields are integers).          *)
(***************************************************************************)
EXTENDS Integers, Sequences, FiniteSets, TLC

(***************************************************************************)
(* Bounds.                                                                 *)
(***************************************************************************)
\* how many times the config entry is set up (each set up builds a client)
MaxSetups == 2
\* how many sessions there are in the life of a client used on its own
MaxSessions == 3
\* how many tokens are submitted to the config flow
MaxFlows == 3

(***************************************************************************)
(* JSON values and HTTP responses.                                         *)
(***************************************************************************)
EmptyMap == <<>>

\* coordinator.data before the first successful refresh
None == [none |-> TRUE]

HTTP_OK == 200

\* the statuses the remote service answers with in the model
Statuses == {200, 401, 500}

\* state payloads: different field sets, so that a merge of two differs from both
SnapA == [serial_number |-> "SN1", secomat_state |-> 2, operating_mode |-> 1,
          target_humidity_level |-> 1]
SnapB == [serial_number |-> "SN1", secomat_state |-> 0, target_humidity_level |-> 2]
SnapC == [secomat_state |-> 1, operating_mode |-> 2, room_drying_enabled |-> 1]

Payloads == {EmptyMap, SnapA, SnapB, SnapC}

\* the optional parts a decoded body is put together from
TypeParts == {EmptyMap, [type |-> "STATE"], [type |-> "OTHER"]}
PayloadParts == {EmptyMap} \cup {[payload |-> p] : p \in Payloads}
StatusParts == {EmptyMap, [status |-> "OK"], [status |-> "REJECTED"]}
SerialParts == {EmptyMap, [serial_number |-> "SN2"]}

\* every decoded JSON object of the model
Bodies == {t @@ p @@ s @@ n : t \in TypeParts, p \in PayloadParts,
                              s \in StatusParts, n \in SerialParts}

\* what response.json() does with the body of a response that arrived:
\*   object            decodes to a JSON object (the body field)
\*   ContentTypeError  the content type is not JSON (an aiohttp.ClientError)
\*   JSONDecodeError   the text is not JSON (a ValueError)
\*   not_object        decodes to a JSON value that is no object (no .get)
Decodes == {"object", "ContentTypeError", "JSONDecodeError", "not_object"}

\* how the request ends: a response arrives, or the transport raises
Outcomes == {"response", "ClientError", "TimeoutError"}

Response(o, st, d, b) == [outcome |-> o, status |-> st, decode |-> d, body |-> b]

\* every way a request of the client can end
Responses == {Response("response", st, d, b) : st \in Statuses, d \in {"object"}, b \in Bodies}
             \cup {Response("response", st, d, EmptyMap) :
                       st \in Statuses, d \in Decodes \ {"object"}}
             \cup {Response(o, 0, "object", EmptyMap) : o \in {"ClientError", "TimeoutError"}}

(***************************************************************************)
(* api.py: the outcome of a call is what it returns or the exception it    *)
(* raises.                                                                 *)
(***************************************************************************)
SecomatAPIError == "SecomatAPIError"
NoExc == "none"

Return(v) == [exc |-> NoExc, value |-> v]
Raise(e, v) == [exc |-> e, value |-> v]

\* dict.get(key, default)
Get(d, key, default) == IF key \in DOMAIN d THEN d[key] ELSE default

\* the requests without their check of the status
RequestExc_no_status_check(resp) ==
    IF resp.outcome = "ClientError" THEN SecomatAPIError
    ELSE IF resp.outcome = "TimeoutError" THEN SecomatAPIError
    ELSE IF resp.decode = "ContentTypeError" THEN SecomatAPIError
    ELSE IF resp.decode = "JSONDecodeError" THEN "JSONDecodeError"
    ELSE IF resp.decode = "not_object" THEN "AttributeError"
    ELSE NoExc

\* the exception, if any, that leaves the "async with session.get/post" block
\* before the decoded body is used, as the try/except of the caller maps it
RequestExc(resp) ==
    IF resp.outcome = "ClientError" THEN SecomatAPIError
    ELSE IF resp.outcome = "TimeoutError" THEN SecomatAPIError
    ELSE IF resp.status # HTTP_OK THEN SecomatAPIError
    ELSE IF resp.decode = "ContentTypeError" THEN SecomatAPIError
    ELSE IF resp.decode = "JSONDecodeError" THEN "JSONDecodeError"
    ELSE IF resp.decode = "not_object" THEN "AttributeError"
    ELSE NoExc

\* get_state that returns the decoded body whether or not it is an envelope
get_state_no_unwrap(resp) ==
    IF RequestExc(resp) # NoExc THEN Raise(RequestExc(resp), EmptyMap)
    ELSE Return(resp.body)

\* SecomatAPI.get_state, given how its GET ends
get_state(resp) ==
    IF RequestExc(resp) # NoExc THEN Raise(RequestExc(resp), EmptyMap)
    ELSE IF "type" \in DOMAIN resp.body /\ resp.body["type"] = "STATE"
         THEN Return(Get(resp.body, "payload", EmptyMap))
         ELSE Return(resp.body)

\* send_command that takes any status field for an acknowledgement
send_command_any_status(resp) ==
    IF RequestExc(resp) # NoExc THEN Raise(RequestExc(resp), FALSE)
    ELSE Return("status" \in DOMAIN resp.body)

\* SecomatAPI.send_command, given how its POST ends
send_command(resp) ==
    IF RequestExc(resp) # NoExc THEN Raise(RequestExc(resp), FALSE)
    ELSE Return("status" \in DOMAIN resp.body /\ resp.body["status"] = "OK")

\* the commands of the facade and of the select (api.py, select.py)
CMD_OFF == "OFF"
CMD_WASH_AUTO == "PRG_WASH_AUTO"
CMD_ROOM_ON == "PRG_ROOM_ON"
CMD_ROOM_OFF == "PRG_ROOM_OFF"
CMD_SET_TARGET_HUMIDITY == "SET_TARGET_HUMIDITY"

\* const.HUMIDITY_LEVELS
HUMIDITY_LEVELS == (0 :> "wet") @@ (1 :> "dry") @@ (2 :> "extra_dry")

\* the JSON body send_command posts: args or {} (args is None when not given)
PostPayload(command, args) ==
    [command |-> command,
     args |-> IF args = None \/ args = EmptyMap THEN EmptyMap ELSE args]

(***************************************************************************)
(* api.py: the client's session.  A client is [session, own_session],      *)
(* session being 0 (None) or the index of a session in the list of all     *)
(* sessions ever opened; a session is [creator, closed, close_calls],      *)
(* creator being the client that opened it (0: opened outside the client). *)
(***************************************************************************)
NewClient == [session |-> 0, own_session |-> TRUE]

\* SecomatAPI.__init__ with the session given (0: None)
SecomatAPI(session) == [session |-> session, own_session |-> session = 0]

NewSession(creator) == [creator |-> creator, closed |-> FALSE, close_calls |-> 0]

\* SecomatAPI._ensure_session of client c: the client and the sessions after it
_ensure_session(a, ss, c) ==
    IF a.session = 0 \/ ss[a.session].closed
    THEN [api |-> [session |-> Len(ss) + 1, own_session |-> TRUE],
          sessions |-> Append(ss, NewSession(c))]
    ELSE [api |-> a, sessions |-> ss]

\* close that does not look at who owns the session
close_any_session(a, ss) ==
    IF a.session # 0 /\ ~ss[a.session].closed
    THEN [ss EXCEPT ![a.session].closed = TRUE,
                    ![a.session].close_calls = @ + 1]
    ELSE ss

\* close that does not look at whether the session is closed already
close_again(a, ss) ==
    IF a.own_session /\ a.session # 0
    THEN [ss EXCEPT ![a.session].closed = TRUE,
                    ![a.session].close_calls = @ + 1]
    ELSE ss

\* SecomatAPI.close: the sessions after it
close(a, ss) ==
    IF a.own_session /\ a.session # 0 /\ ~ss[a.session].closed
    THEN [ss EXCEPT ![a.session].closed = TRUE,
                    ![a.session].close_calls = @ + 1]
    ELSE ss

(***************************************************************************)
(* coordinator.py: SecomatCoordinator.                                     *)
(***************************************************************************)
UpdateFailed == "UpdateFailed"

\* SecomatCoordinator._async_update_data, given how the GET of get_state ends
_async_update_data(resp) ==
    IF get_state(resp).exc = SecomatAPIError
    THEN Raise(UpdateFailed, EmptyMap)
    ELSE get_state(resp)

\* a refresh that clears the data when it fails
RefreshedData_cleared_on_failure(old, res) == IF res.exc = NoExc THEN res.value ELSE None

\* a refresh that merges what it fetched into the data it finds
RefreshedData_merged(old, res) ==
    IF res.exc # NoExc THEN old
    ELSE IF old = None THEN res.value
    ELSE res.value @@ old

\* coordinator.data after a refresh that found it old: data is assigned the value
\* _async_update_data returned and is left alone when it raised
RefreshedData(old, res) == IF res.exc = NoExc THEN res.value ELSE old

(***************************************************************************)
(* The state.                                                              *)
(***************************************************************************)
VARIABLES
    entry_state,   \* the config entry: not_loaded, setup_in_progress, loaded,
                   \* setup_retry (set up raised), failed_unload
    setups,        \* set ups started; the client and coordinator of set up n are n
    registered,    \* hass.data[DOMAIN][entry_id]: a coordinator, or 0
    platforms,     \* the sensor, switch and select platforms are set up
    data,          \* coordinator.data (the snapshot) of the latest coordinator
    api,           \* the client the latest set up built
    sessions,      \* every session opened so far
    fetch,         \* fetch[r]: the get_state of refresh r is "idle" or "in_flight"
    raced,         \* the refreshes in flight during which another one wrote data
    tick_armed,    \* the coordinator's update interval timer is scheduled
    db_timer,      \* the refresh debouncer's cooldown timer is running
    db_at_end,     \* the debouncer is to refresh when its cooldown ends
    db_lock,       \* the refresh holding the debouncer's lock, or "free"
    ctl,           \* the entity action (switch or select service call) under way
    last_post,     \* the JSON body of the latest POST
    last,          \* how the latest completed get_state of a refresh went
    call,          \* the latest call of the client made on its own, and its outcome
    flow           \* the config flow's user step

\* the state of the config entry, its coordinator and its entities
entryVars == <<entry_state, setups, registered, platforms, data, api, sessions, fetch,
               raced, tick_armed, db_timer, db_at_end, db_lock, ctl, last_post, last>>

vars == <<entryVars, call, flow>>

\* the refreshes of a coordinator: the first one of set up, the update interval's,
\* the one an entity action awaits, the one the debouncer runs after its cooldown
Refreshers == {"first", "tick", "ctl", "deb"}

\* the entity actions
SwitchOps == {"laundry_on", "laundry_off", "room_on", "room_off"}
\* the options async_select_option is called with: the select's and one that is not
Options == {"wet", "dry", "extra_dry", "eco"}

NoResponse == Response("none", 0, "object", EmptyMap)
NoPost == PostPayload("none", EmptyMap)

\* how the requests of the coordinator and of the entities end in the model
CoordResponses ==
    {Response("response", HTTP_OK, "object", [type |-> "STATE", payload |-> SnapA]),
     Response("response", HTTP_OK, "object", SnapC),
     Response("response", 500, "object", [type |-> "STATE", payload |-> SnapB]),
     Response("TimeoutError", 0, "object", EmptyMap)}

CommandResponses ==
    {Response("response", HTTP_OK, "object", [status |-> "OK"]),
     Response("response", HTTP_OK, "object", [status |-> "REJECTED"]),
     Response("response", 401, "object", [status |-> "OK"]),
     Response("response", HTTP_OK, "JSONDecodeError", EmptyMap)}

IdleCtl == [pc |-> "idle", op |-> "none", option |-> "none", posts |-> 0,
            resp |-> NoResponse, exc |-> NoExc, ret |-> FALSE,
            requested |-> FALSE, db_idle |-> FALSE, awaited |-> FALSE]

NoCall == [op |-> "none", resp |-> NoResponse, exc |-> NoExc, value |-> EmptyMap,
           ok |-> FALSE, text |-> "", prev |-> "none"]

\* the config flow before its user step: no result, no error, no entry
\* (entries: the unique ids of the entries created, in order; flows: the tokens
\* submitted so far)
NoFlow == [pc |-> "idle", submitted |-> FALSE, result |-> "none", error |-> "",
           valid |-> FALSE, fetched |-> FALSE, serial |-> "", duplicate |-> FALSE,
           exc |-> NoExc, entries |-> <<>>, flows |-> 0]

NoFetch == [who |-> "none", resp |-> NoResponse, exc |-> NoExc, before |-> None,
            raced |-> FALSE]

Init ==
    /\ entry_state = "not_loaded"
    /\ setups = 0
    /\ registered = 0
    /\ platforms = FALSE
    /\ data = None
    /\ api = NewClient
    /\ sessions = <<>>
    /\ fetch = [r \in Refreshers |-> "idle"]
    /\ raced = {}
    /\ tick_armed = FALSE
    /\ db_timer = FALSE
    /\ db_at_end = FALSE
    /\ db_lock = "free"
    /\ ctl = IdleCtl
    /\ last_post = NoPost
    /\ last = NoFetch
    /\ call = NoCall
    /\ flow = NoFlow

(***************************************************************************)
(* A refresh of the coordinator (DataUpdateCoordinator._async_refresh as   *)
(* SecomatCoordinator inherits it): it unschedules the interval timer and  *)
(* cancels the debouncer, awaits _async_update_data, assigns data on       *)
(* success and reschedules the interval timer when entities listen.        *)
(***************************************************************************)
\* refresh r of client c (a) starts: up to the await of session.get in get_state
RefreshBegin(r, a, c) ==
    /\ tick_armed' = FALSE
    /\ db_timer' = FALSE
    /\ db_at_end' = FALSE
    /\ api' = _ensure_session(a, sessions, c).api
    /\ sessions' = _ensure_session(a, sessions, c).sessions
    /\ fetch' = [fetch EXCEPT ![r] = "in_flight"]
    /\ raced' = raced \ {r}

\* the GET of refresh r ends as resp: the coordinator's data, the record of it
RefreshEnd(r, resp) ==
    /\ fetch[r] = "in_flight"
    /\ fetch' = [fetch EXCEPT ![r] = "idle"]
    /\ data' = RefreshedData(data, _async_update_data(resp))
    /\ raced' = IF _async_update_data(resp).exc = NoExc
                THEN {q \in Refreshers \ {r} : fetch[q] = "in_flight"}
                ELSE raced \ {r}
    /\ last' = [who |-> r, resp |-> resp, exc |-> get_state(resp).exc,
                before |-> data, raced |-> r \in raced]

(***************************************************************************)
(* __init__.py: the config entry.                                          *)
(***************************************************************************)
\* async_setup_entry up to its await of the first refresh: a new client and a new
\* coordinator (no data, a new debouncer), and the first refresh's get_state in
\* flight
async_setup_entry ==
    /\ entry_state \in {"not_loaded", "setup_retry"}
    /\ setups < MaxSetups
    /\ \A r \in Refreshers : fetch[r] = "idle"
    /\ setups' = setups + 1
    /\ entry_state' = "setup_in_progress"
    /\ db_lock' = "free"
    /\ data' = None
    /\ last' = NoFetch
    /\ RefreshBegin("first", NewClient, setups + 1)
    /\ UNCHANGED <<call, flow>>
    /\ UNCHANGED <<registered, platforms, ctl, last_post>>

\* a set up that stores the coordinator before it looks at the first refresh
SetupOutcome_registered_first(res, coordinator, reg, plat) ==
    IF res.exc = NoExc
    THEN [registered |-> coordinator, platforms |-> TRUE, entry_state |-> "loaded"]
    ELSE [registered |-> coordinator, platforms |-> plat, entry_state |-> "setup_retry"]

\* hass.data, the platforms and the entry after the first refresh got res:
\* async_config_entry_first_refresh raises when the refresh failed, and nothing
\* after it runs; else the coordinator is stored and the platforms are set up
SetupOutcome(res, coordinator, reg, plat) ==
    IF res.exc = NoExc
    THEN [registered |-> coordinator, platforms |-> TRUE, entry_state |-> "loaded"]
    ELSE [registered |-> reg, platforms |-> plat, entry_state |-> "setup_retry"]

\* async_setup_entry from the end of the first refresh's GET on
FirstRefreshDone(resp) ==
    /\ entry_state = "setup_in_progress"
    /\ RefreshEnd("first", resp)
    /\ LET out == SetupOutcome(_async_update_data(resp), setups, registered, platforms)
       IN /\ registered' = out.registered
          /\ platforms' = out.platforms
          /\ entry_state' = out.entry_state
          \* the entities added listen to the coordinator: its timer is scheduled
          /\ tick_armed' = out.platforms
    /\ UNCHANGED <<call, flow>>
    /\ UNCHANGED <<setups, api, sessions, db_timer, db_at_end, db_lock, ctl, last_post>>

\* the sessions after async_unload_entry whose async_unload_platforms gave unload_ok
UnloadSessions(unload_ok, a, ss) == IF unload_ok THEN close(a, ss) ELSE ss

\* async_unload_entry, taken when no request of the client is in flight; unloading
\* the platforms removes the coordinator's listeners and shuts its timers down
async_unload_entry(unload_ok) ==
    /\ entry_state = "loaded"
    /\ \A r \in Refreshers : fetch[r] = "idle"
    /\ ctl.pc \in {"idle", "returned"}
    /\ sessions' = UnloadSessions(unload_ok, api, sessions)
    /\ IF unload_ok
       THEN /\ registered' = 0
            /\ platforms' = FALSE
            /\ tick_armed' = FALSE
            /\ db_timer' = FALSE
            /\ db_at_end' = FALSE
            /\ entry_state' = "not_loaded"
            /\ ctl' = IdleCtl
            /\ last_post' = NoPost
       ELSE /\ entry_state' = "failed_unload"
            /\ UNCHANGED <<registered, platforms, tick_armed, db_timer, db_at_end,
                           ctl, last_post>>
    /\ UNCHANGED <<call, flow>>
    /\ UNCHANGED <<setups, data, api, fetch, raced, db_lock, last>>

(***************************************************************************)
(* The coordinator's update interval.                                      *)
(***************************************************************************)
\* the interval timer fires: a scheduled refresh starts
ScheduledRefresh ==
    /\ tick_armed
    /\ fetch["tick"] = "idle"
    /\ RefreshBegin("tick", api, setups)
    /\ UNCHANGED <<call, flow>>
    /\ UNCHANGED <<entry_state, setups, registered, platforms, data, db_lock, ctl,
                   last_post, last>>

\* the GET of the scheduled refresh ends
ScheduledRefreshDone(resp) ==
    /\ RefreshEnd("tick", resp)
    /\ tick_armed' = platforms
    /\ UNCHANGED <<call, flow>>
    /\ UNCHANGED <<entry_state, setups, registered, platforms, api, sessions,
                   db_timer, db_at_end, db_lock, ctl, last_post>>

(***************************************************************************)
(* switch.py, select.py: the entity actions.  Each is                      *)
(*     try: await api.<command>(); await coordinator.async_request_refresh()*)
(*     except SecomatAPIError: log                                         *)
(***************************************************************************)
\* switches of which turning room drying off turns the appliance off
SwitchCommand_room_off_turns_off(op) ==
    CASE op = "laundry_on" -> CMD_WASH_AUTO
      [] op = "laundry_off" -> CMD_OFF
      [] op = "room_on" -> CMD_ROOM_ON
      [] op = "room_off" -> CMD_OFF

\* the command of a switch action: SecomatPowerSwitch.async_turn_on / async_turn_off,
\* SecomatRoomDryingSwitch.async_turn_on / async_turn_off through the client's
\* start_laundry_drying, turn_off, start_room_drying, stop_room_drying
SwitchCommand(op) ==
    CASE op = "laundry_on" -> CMD_WASH_AUTO
      [] op = "laundry_off" -> CMD_OFF
      [] op = "room_on" -> CMD_ROOM_ON
      [] op = "room_off" -> CMD_ROOM_OFF

\* a select that takes level 0 for no level ("if level:")
level_map_without_zero(option) ==
    {l \in DOMAIN HUMIDITY_LEVELS : HUMIDITY_LEVELS[l] = option /\ l # 0}

\* async_select_option's level_map.get(option): the levels (none or one) of option
level_map(option) == {l \in DOMAIN HUMIDITY_LEVELS : HUMIDITY_LEVELS[l] = option}

\* an action that requests the refresh whatever the command did
RequestsRefresh_always(res) == TRUE

\* a command leaves the action's try block at its first statement when it raises;
\* async_request_refresh is the second statement
RequestsRefresh(res) == res.exc = NoExc

\* async_request_refresh is the debouncer's async_call (immediate): it runs the
\* refresh itself unless the cooldown timer is running (then it asks for a refresh
\* at the end of the cooldown) or a refresh holds the lock (then it does nothing)
DebouncerRuns(timer, lock) == ~timer /\ lock = "free"

\* an action that starts the requested refresh and does not await it
AwaitsRequest_never(runs) == FALSE

\* the action awaits async_request_refresh, so it waits for a refresh the call runs
AwaitsRequest(runs) == runs

\* an action that writes the state it expects of an accepted command
DataAfterCommand_optimistic(old, res) ==
    IF res.exc = NoExc /\ res.value THEN EmptyMap ELSE old

\* coordinator.data after a command that found it old: send_command returns its
\* boolean and the action assigns nothing to the coordinator
DataAfterCommand(old, res) == old

\* SecomatPowerSwitch.is_on on the snapshot d
is_on(d) ==
    Get(d, "secomat_state", 0) > 0 /\ Get(d, "operating_mode", 0) \in {1, 2}

\* SecomatTargetHumiditySelect.current_option on the snapshot d
current_option(d) ==
    Get(HUMIDITY_LEVELS, Get(d, "target_humidity_level", 1), "dry")

\* a switch action up to the await of session.post in send_command
SwitchCall(op) ==
    /\ entry_state = "loaded"
    /\ ctl.pc \in {"idle", "returned"}
    /\ api' = _ensure_session(api, sessions, setups).api
    /\ sessions' = _ensure_session(api, sessions, setups).sessions
    /\ last_post' = PostPayload(SwitchCommand(op), None)
    /\ ctl' = [IdleCtl EXCEPT !.pc = "posting", !.op = op, !.posts = 1]
    /\ UNCHANGED <<call, flow>>
    /\ UNCHANGED <<entry_state, setups, registered, platforms, data, fetch, raced,
                   tick_armed, db_timer, db_at_end, db_lock, last>>

\* SecomatTargetHumiditySelect.async_select_option up to the await of session.post,
\* or to its end when the option has no level
async_select_option(option) ==
    /\ entry_state = "loaded"
    /\ ctl.pc \in {"idle", "returned"}
    /\ IF level_map(option) = {}
       THEN /\ ctl' = [IdleCtl EXCEPT !.pc = "returned", !.op = "select",
                                      !.option = option]
            /\ UNCHANGED <<api, sessions, last_post>>
       ELSE /\ api' = _ensure_session(api, sessions, setups).api
            /\ sessions' = _ensure_session(api, sessions, setups).sessions
            /\ last_post' = PostPayload(CMD_SET_TARGET_HUMIDITY,
                                [level |-> CHOOSE l \in level_map(option) : TRUE])
            /\ ctl' = [IdleCtl EXCEPT !.pc = "posting", !.op = "select",
                                      !.option = option, !.posts = 1]
    /\ UNCHANGED <<call, flow>>
    /\ UNCHANGED <<entry_state, setups, registered, platforms, data, fetch, raced,
                   tick_armed, db_timer, db_at_end, db_lock, last>>

\* the POST of the action ends as resp: the rest of the action up to its return or
\* to the await of the GET of the refresh it runs
CommandDone(resp) ==
    /\ ctl.pc = "posting"
    /\ LET res == send_command(resp)
           req == RequestsRefresh(res)
           runs == req /\ DebouncerRuns(db_timer, db_lock)
           done == [ctl EXCEPT !.resp = resp, !.exc = res.exc, !.ret = res.value,
                               !.requested = req, !.db_idle = runs]
       IN IF runs
          THEN /\ db_lock' = "ctl"
               /\ RefreshBegin("ctl", api, setups)
               /\ ctl' = [done EXCEPT !.pc = IF AwaitsRequest(runs)
                                             THEN "refreshing" ELSE "returned"]
          ELSE /\ db_at_end' = (db_at_end \/ (req /\ db_timer))
               /\ ctl' = [done EXCEPT !.pc = "returned"]
               /\ UNCHANGED <<db_lock, tick_armed, db_timer, api, sessions, fetch, raced>>
    /\ data' = DataAfterCommand(data, send_command(resp))
    /\ UNCHANGED <<call, flow>>
    /\ UNCHANGED <<entry_state, setups, registered, platforms, last_post, last>>

\* the GET of the refresh an action runs ends: the debouncer starts its cooldown
\* and releases its lock, and the action returns
EntityRefreshDone(resp) ==
    /\ RefreshEnd("ctl", resp)
    /\ tick_armed' = platforms
    /\ db_timer' = TRUE
    /\ db_lock' = "free"
    /\ ctl' = IF ctl.pc = "refreshing"
              THEN [ctl EXCEPT !.pc = "returned", !.awaited = TRUE]
              ELSE ctl
    /\ UNCHANGED <<call, flow>>
    /\ UNCHANGED <<entry_state, setups, registered, platforms, api, sessions,
                   db_at_end, last_post>>

\* the debouncer's cooldown ends: it refreshes when it was asked to meanwhile
DebouncerTimerFinish ==
    /\ db_timer
    /\ IF db_at_end /\ db_lock = "free"
       THEN /\ db_lock' = "deb"
            /\ RefreshBegin("deb", api, setups)
       ELSE /\ db_timer' = FALSE
            /\ db_at_end' = FALSE
            /\ UNCHANGED <<db_lock, tick_armed, api, sessions, fetch, raced>>
    /\ UNCHANGED <<call, flow>>
    /\ UNCHANGED <<entry_state, setups, registered, platforms, data, ctl, last_post,
                   last>>

\* the GET of the debouncer's refresh ends
DebouncedRefreshDone(resp) ==
    /\ RefreshEnd("deb", resp)
    /\ tick_armed' = platforms
    /\ db_timer' = TRUE
    /\ db_lock' = "free"
    /\ UNCHANGED <<call, flow>>
    /\ UNCHANGED <<entry_state, setups, registered, platforms, api, sessions,
                   db_at_end, ctl, last_post>>

Next ==
    \/ async_setup_entry
    \/ \E resp \in CoordResponses : FirstRefreshDone(resp)
    \/ \E unload_ok \in BOOLEAN : async_unload_entry(unload_ok)
    \/ ScheduledRefresh
    \/ \E resp \in CoordResponses : ScheduledRefreshDone(resp)
    \/ \E op \in SwitchOps : SwitchCall(op)
    \/ \E option \in Options : async_select_option(option)
    \/ \E resp \in CommandResponses : CommandDone(resp)
    \/ \E resp \in CoordResponses : EntityRefreshDone(resp)
    \/ DebouncerTimerFinish
    \/ \E resp \in CoordResponses : DebouncedRefreshDone(resp)

Spec == Init /\ [][Next]_vars

(***************************************************************************)
(* The client on its own: get_state and send_command on every way their    *)
(* request can end.                                                        *)
(***************************************************************************)
GetStateCall(resp) ==
    /\ call' = [op |-> "get_state", resp |-> resp, exc |-> get_state(resp).exc,
                value |-> get_state(resp).value, ok |-> FALSE, text |-> "",
                prev |-> "none"]
    /\ UNCHANGED <<entryVars, flow>>

SendCommandCall(resp) ==
    /\ call' = [op |-> "send_command", resp |-> resp, exc |-> send_command(resp).exc,
                value |-> EmptyMap, ok |-> send_command(resp).value, text |-> "",
                prev |-> "none"]
    /\ UNCHANGED <<entryVars, flow>>

\* validate_connection that lets the API error of get_state through
validate_connection_raises(resp) ==
    IF get_state(resp).exc # NoExc
    THEN Raise(get_state(resp).exc, FALSE)
    ELSE Return("serial_number" \in DOMAIN get_state(resp).value)

\* SecomatAPI.validate_connection, given how the GET of its get_state ends
validate_connection(resp) ==
    IF get_state(resp).exc = SecomatAPIError THEN Return(FALSE)
    ELSE IF get_state(resp).exc # NoExc THEN Raise(get_state(resp).exc, FALSE)
    ELSE Return("serial_number" \in DOMAIN get_state(resp).value)

ValidateConnectionCall(resp) ==
    /\ call' = [op |-> "validate_connection", resp |-> resp,
                exc |-> validate_connection(resp).exc, value |-> EmptyMap,
                ok |-> validate_connection(resp).value, text |-> "",
                prev |-> "none"]
    /\ UNCHANGED <<entryVars, flow>>

\* the snapshots the entities are read on: each field absent or one of its codes
\* (and one code that no table has)
StateParts == {EmptyMap} \cup {[secomat_state |-> v] : v \in 0..2}
ModeParts == {EmptyMap} \cup {[operating_mode |-> v] : v \in 0..3}
LevelParts == {EmptyMap} \cup {[target_humidity_level |-> v] : v \in 0..3}

Snapshots == {a @@ b @@ c : a \in StateParts, b \in ModeParts, c \in LevelParts}

\* the Laundry Drying switch is read on the snapshot d
PowerSwitchIsOn(d) ==
    /\ call' = [NoCall EXCEPT !.op = "is_on", !.value = d, !.ok = is_on(d)]
    /\ UNCHANGED <<entryVars, flow>>

\* the Target Moisture select is read on the snapshot d
SelectCurrentOption(d) ==
    /\ call' = [NoCall EXCEPT !.op = "current_option", !.value = d,
                              !.text = current_option(d)]
    /\ UNCHANGED <<entryVars, flow>>

ApiNext ==
    \/ \E resp \in Responses : GetStateCall(resp)
    \/ \E resp \in Responses : SendCommandCall(resp)
    \/ \E resp \in Responses : ValidateConnectionCall(resp)
    \/ \E d \in Snapshots : PowerSwitchIsOn(d)
    \/ \E d \in Snapshots : SelectCurrentOption(d)

ApiSpec == Init /\ [][ApiNext]_vars

(***************************************************************************)
(* A client used on its own, built without a session or with a session of  *)
(* its caller's: get_state, send_command and close in any order, and the   *)
(* caller closing its session.  The client is client 1; close_calls of a   *)
(* session counts the session.close() of the client.                       *)
(***************************************************************************)
ClientBegin ==
    /\ entry_state = "not_loaded"
    /\ setups = 0
    /\ registered = 0
    /\ platforms = FALSE
    /\ data = None
    /\ fetch = [r \in Refreshers |-> "idle"]
    /\ raced = {}
    /\ tick_armed = FALSE
    /\ db_timer = FALSE
    /\ db_at_end = FALSE
    /\ db_lock = "free"
    /\ ctl = IdleCtl
    /\ last_post = NoPost
    /\ last = NoFetch
    /\ call = NoCall
    /\ flow = NoFlow
    /\ \/ api = SecomatAPI(0) /\ sessions = <<>>
       \/ api = SecomatAPI(1) /\ sessions = <<NewSession(0)>>

\* what is left alone by the calls of a client on its own
clientRest == <<entry_state, setups, registered, platforms, data, fetch, raced,
                tick_armed, db_timer, db_at_end, db_lock, ctl, last_post, last, flow>>

\* get_state of the client: its session is ensured, its GET ends as resp
ClientGetState(resp) ==
    /\ Len(_ensure_session(api, sessions, 1).sessions) <= MaxSessions
    /\ api' = _ensure_session(api, sessions, 1).api
    /\ sessions' = _ensure_session(api, sessions, 1).sessions
    /\ call' = [op |-> "get_state", resp |-> resp, exc |-> get_state(resp).exc,
                value |-> get_state(resp).value, ok |-> FALSE, text |-> "",
                prev |-> call.op]
    /\ UNCHANGED clientRest

\* send_command of the client: its session is ensured, its POST ends as resp
ClientSendCommand(resp) ==
    /\ Len(_ensure_session(api, sessions, 1).sessions) <= MaxSessions
    /\ api' = _ensure_session(api, sessions, 1).api
    /\ sessions' = _ensure_session(api, sessions, 1).sessions
    /\ call' = [op |-> "send_command", resp |-> resp, exc |-> send_command(resp).exc,
                value |-> EmptyMap, ok |-> send_command(resp).value, text |-> "",
                prev |-> call.op]
    /\ UNCHANGED clientRest

\* close of the client
ClientClose ==
    /\ sessions' = close(api, sessions)
    /\ call' = [NoCall EXCEPT !.op = "close", !.prev = call.op]
    /\ UNCHANGED api
    /\ UNCHANGED clientRest

\* the caller that gave the client its session closes it
OwnerClosesSession ==
    /\ \E i \in DOMAIN sessions :
           /\ sessions[i].creator = 0
           /\ ~sessions[i].closed
           /\ sessions' = [sessions EXCEPT ![i].closed = TRUE]
    /\ call' = [NoCall EXCEPT !.op = "owner_close", !.prev = call.op]
    /\ UNCHANGED api
    /\ UNCHANGED clientRest

ClientNext ==
    \/ \E resp \in CoordResponses : ClientGetState(resp)
    \/ \E resp \in CommandResponses : ClientSendCommand(resp)
    \/ ClientClose
    \/ OwnerClosesSession

ClientSpec == ClientBegin /\ [][ClientNext]_vars

(***************************************************************************)
(* config_flow.py: SecomatConfigFlow.async_step_user.  The step awaits the  *)
(* GET of validate_connection and then the GET of get_state; what runs      *)
(* between and after them (close, the unique id, the result, the except and *)
(* finally clauses) is part of the action that ends the GET.                *)
(***************************************************************************)
AbortFlow == "AbortFlow"

\* _abort_if_unique_id_configured after async_set_unique_id(serial): AbortFlow is
\* raised when an entry has the unique id
_abort_if_unique_id_configured(serial, entries) ==
    IF \E i \in DOMAIN entries : entries[i] = serial
    THEN Raise(AbortFlow, FALSE)
    ELSE Return(TRUE)

\* async_show_form with errors["base"] = error ("" for no error)
async_show_form(f, error) ==
    [f EXCEPT !.pc = "done", !.result = "form", !.error = error]

\* what is left alone by the config flow
flowRest == <<entry_state, setups, registered, platforms, data, fetch, raced,
              tick_armed, db_timer, db_at_end, db_lock, ctl, last_post, last, call>>

\* the user step without input: the form, no error
async_step_user_form ==
    /\ flow.pc \in {"idle", "done"}
    /\ flow' = async_show_form([NoFlow EXCEPT !.entries = flow.entries,
                                              !.flows = flow.flows], "")
    /\ UNCHANGED <<api, sessions>>
    /\ UNCHANGED flowRest

\* the user step with a token, up to the await of session.get in the get_state
\* of validate_connection: a client of its own, its session ensured
async_step_user ==
    /\ flow.pc \in {"idle", "done"}
    /\ flow.flows < MaxFlows
    /\ api' = _ensure_session(SecomatAPI(0), sessions, flow.flows + 1).api
    /\ sessions' = _ensure_session(SecomatAPI(0), sessions, flow.flows + 1).sessions
    /\ flow' = [NoFlow EXCEPT !.pc = "validating", !.submitted = TRUE,
                              !.entries = flow.entries, !.flows = flow.flows + 1]
    /\ UNCHANGED flowRest

\* the GET of validate_connection ends as resp: an exception is caught by
\* "except Exception" (unknown), False is invalid_auth, both close the client in
\* "finally" and show the form; True goes on to get_state
ValidateDone(resp) ==
    /\ flow.pc = "validating"
    /\ LET v == validate_connection(resp)
       IN IF v.exc # NoExc
          THEN /\ flow' = async_show_form([flow EXCEPT !.exc = v.exc], "unknown")
               /\ sessions' = close(api, sessions)
          ELSE IF ~v.value
          THEN /\ flow' = async_show_form(flow, "invalid_auth")
               /\ sessions' = close(api, sessions)
          ELSE /\ flow' = [flow EXCEPT !.pc = "fetching", !.valid = TRUE]
               /\ UNCHANGED sessions
    /\ UNCHANGED api
    /\ UNCHANGED flowRest

\* the GET of get_state ends as resp: an exception is caught (unknown); else the
\* serial is read, the client is closed, the unique id is set and checked, where
\* AbortFlow is raised inside the try and caught by "except Exception" as well;
\* else the entry is created; "finally" closes the client again
FetchDone(resp) ==
    /\ flow.pc = "fetching"
    /\ LET g == get_state(resp)
           serial == Get(g.value, "serial_number", "unknown")
           a == _abort_if_unique_id_configured(serial, flow.entries)
       IN IF g.exc # NoExc
          THEN /\ flow' = async_show_form([flow EXCEPT !.exc = g.exc], "unknown")
               /\ sessions' = close(api, sessions)
          ELSE IF a.exc # NoExc
          THEN /\ flow' = async_show_form([flow EXCEPT !.fetched = TRUE,
                                                       !.serial = serial,
                                                       !.duplicate = TRUE,
                                                       !.exc = a.exc], "unknown")
               /\ sessions' = close(api, close(api, sessions))
          ELSE /\ flow' = [flow EXCEPT !.pc = "done", !.result = "create_entry",
                                       !.fetched = TRUE, !.serial = serial,
                                       !.entries = Append(@, serial)]
               /\ sessions' = close(api, close(api, sessions))
    /\ UNCHANGED api
    /\ UNCHANGED flowRest

FlowNext ==
    \/ async_step_user_form
    \/ async_step_user
    \/ \E resp \in Responses : ValidateDone(resp)
    \/ \E resp \in Responses : FetchDone(resp)

FlowSpec == Init /\ [][FlowNext]_vars

(***************************************************************************)
(* Properties.                                                             *)
(***************************************************************************)
\* the step is the end of the GET of a refresh
FetchCompletes == \E r \in Refreshers : fetch[r] = "in_flight" /\ fetch'[r] = "idle"

\* the step is the end of the POST of an entity action
PostCompletes == ctl.pc = "posting" /\ ctl'.pc # "posting"

\* C1: right after a refresh whose fetch succeeded the coordinator's data is what
\* the fetch returned; right after a refresh whose fetch failed while there was a
\* snapshot, the data is the snapshot held before the refresh
C1_RefreshKeepsOrReplaces ==
    last.who # "none" =>
        IF last.exc = NoExc
        THEN data = IF Get(last.resp.body, "type", "") = "STATE"
                    THEN last.resp.body["payload"] ELSE last.resp.body
        ELSE last.before # None => data = last.before

\* C1 witness: a scheduled refresh failed and the earlier snapshot is served
C1_Witness ==
    /\ last.who = "tick"
    /\ last.exc # NoExc
    /\ last.before = SnapA
    /\ data = SnapA

\* C2: when a refresh completes successfully after a refresh that overlapped it
\* has written the data, the data is exactly what the later one fetched
C2_LastWriteWins ==
    (last.raced /\ last.exc = NoExc) => data = get_state(last.resp).value

\* C2 witness: an on-demand refresh wrote SnapA while the scheduled one was in
\* flight, and the scheduled one then wrote SnapC (no field of SnapA is left)
C2_Witness ==
    /\ last.raced
    /\ last.who = "tick"
    /\ last.exc = NoExc
    /\ last.before = SnapA
    /\ data = SnapC

\* C3: a GET or a POST answered with a status other than 200 fails with the API
\* error whatever its body, and the data is the same after the call as before
C3_Non200Fails ==
    [][/\ (FetchCompletes /\ last'.resp.outcome = "response"
               /\ last'.resp.status # HTTP_OK)
           => (last'.exc = SecomatAPIError /\ data' = data)
       /\ (PostCompletes /\ ctl'.resp.outcome = "response"
               /\ ctl'.resp.status # HTTP_OK)
           => (ctl'.exc = SecomatAPIError /\ data' = data)]_vars

\* C3 witness: a GET answered 500 with a state envelope and a POST answered 401
\* with status OK, the snapshot of before still held
C3_Witness ==
    /\ last.resp.status = 500
    /\ "payload" \in DOMAIN last.resp.body
    /\ last.before = SnapA
    /\ data = SnapA
    /\ ctl.pc = "returned"
    /\ ctl.resp.status = 401
    /\ ctl.exc = SecomatAPIError

\* C4: the data of a coordinator changes only in the step that ends a successful
\* fetch (a set up starts a new coordinator, which has no data); no step of a
\* command changes it
C4_OnlyFetchWrites ==
    [][(data' # data /\ setups' = setups) => (FetchCompletes /\ last'.exc = NoExc)]_vars

\* C4 witness: a command returned true without a refresh run for it, and the
\* snapshot is the one the latest fetch wrote
C4_Witness ==
    /\ ctl.pc = "returned"
    /\ ctl.ret
    /\ ctl.requested
    /\ ~ctl.awaited
    /\ last.exc = NoExc
    /\ data = get_state(last.resp).value

\* C5: when the first refresh of a set up fails, set up raises (the entry is left
\* to be retried), the coordinator has no data, it is not stored in hass.data and
\* no platform is set up
C5_FirstRefreshFailure ==
    (last.who = "first" /\ last.exc # NoExc) =>
        /\ entry_state = "setup_retry"
        /\ data = None
        /\ registered = 0
        /\ ~platforms

\* C5 witness: the first refresh of a set up got an error status
C5_Witness ==
    /\ last.who = "first"
    /\ last.exc = SecomatAPIError
    /\ entry_state = "setup_retry"

\* C6 as claimed: an action that sent a command has requested a refresh when it
\* returns, whatever the command's outcome
C6_Original ==
    (ctl.pc = "returned" /\ ctl.posts > 0) => ctl.requested

\* C6 amended: an action that sent a command has requested a refresh when it
\* returns exactly when the command returned (true or false); when the command
\* raised, no refresh is requested
C6_RefreshAfterReturnedCommand ==
    (ctl.pc = "returned" /\ ctl.posts > 0) => (ctl.requested <=> ctl.exc = NoExc)

\* C6 witness: the command failed with the API error and the action returned
\* without a request
C6_Witness ==
    /\ ctl.pc = "returned"
    /\ ctl.posts > 0
    /\ ctl.exc = SecomatAPIError
    /\ ~ctl.requested

\* C7 as claimed: the action never returns after the fetch of the refresh it
\* requested
C7_Original ==
    (ctl.pc = "returned" /\ ctl.requested) => ~ctl.awaited

\* C7 amended: the action awaits its request; it returns after the fetch of the
\* refresh exactly when the debouncer was idle at the request (no cooldown, no
\* refresh holding the lock), and without waiting for a fetch otherwise
C7_AwaitsUnlessDebounced ==
    (ctl.pc = "returned" /\ ctl.requested) => (ctl.awaited <=> ctl.db_idle)

\* C7 witness: the action returned after the fetch of its refresh wrote the data
C7_Witness ==
    /\ ctl.pc = "returned"
    /\ ctl.requested
    /\ ctl.awaited
    /\ last.who = "ctl"
    /\ last.exc = NoExc

\* C8 as claimed: get_state and send_command fail with the API error and with no
\* other
C8_SingleErrorKind ==
    call.op # "none" => call.exc \in {NoExc, SecomatAPIError}

\* client c is discarded: its set up raised, its entry was unloaded, or a later set
\* up built another
Discarded(c) ==
    \/ c < setups
    \/ c = setups /\ entry_state \in {"setup_retry", "not_loaded"}

\* C9 as claimed: no session is closed twice, and every session of a discarded
\* client has been closed once
C9_SessionsClosedOnce ==
    \A i \in DOMAIN sessions :
        /\ sessions[i].close_calls <= 1
        /\ Discarded(sessions[i].creator) =>
               (sessions[i].closed /\ sessions[i].close_calls = 1)

\* C10: for a 200 GET whose body decodes to the object B, get_state returns
\* exactly B's payload when B has type STATE and a payload, and B itself when B
\* has no type STATE
C10_GetStateUnwraps ==
    (/\ call.op = "get_state"
     /\ call.resp.outcome = "response"
     /\ call.resp.status = HTTP_OK
     /\ call.resp.decode = "object") =>
        LET B == call.resp.body
        IN IF Get(B, "type", "") = "STATE"
           THEN "payload" \in DOMAIN B => (call.exc = NoExc /\ call.value = B["payload"])
           ELSE call.exc = NoExc /\ call.value = B

\* C10 witness: an envelope with a payload and further fields beside it
C10_Witness ==
    /\ call.op = "get_state"
    /\ call.resp.status = HTTP_OK
    /\ call.resp.body = [type |-> "STATE", payload |-> SnapA, status |-> "OK",
                         serial_number |-> "SN2"]
    /\ call.value = SnapA

\* C11: for a 200 POST whose body decodes to the object B, send_command returns
\* true when B's status is "OK" and false, raising nothing, for any other status
\* and when B has no status
C11_SendCommandOkIffStatusOK ==
    (/\ call.op = "send_command"
     /\ call.resp.outcome = "response"
     /\ call.resp.status = HTTP_OK
     /\ call.resp.decode = "object") =>
        /\ call.exc = NoExc
        /\ call.ok <=> ("status" \in DOMAIN call.resp.body
                           /\ call.resp.body["status"] = "OK")

\* C11 witness: the POST was answered 200 with status REJECTED and the call
\* returned false
C11_Witness ==
    /\ call.op = "send_command"
    /\ call.resp.status = HTTP_OK
    /\ call.resp.decode = "object"
    /\ call.resp.body = [status |-> "REJECTED"]
    /\ call.exc = NoExc
    /\ ~call.ok

\* the GET was answered in a way get_state reports as the API error
ApiErrorResponse(resp) ==
    \/ resp.outcome \in {"ClientError", "TimeoutError"}
    \/ resp.outcome = "response" /\ resp.status # HTTP_OK
    \/ resp.outcome = "response" /\ resp.decode = "ContentTypeError"

\* C12: validate_connection returns true exactly when its get_state succeeds and
\* the mapping it returns has the key serial_number; when get_state fails with
\* the API error (a 401 among them) it returns false and raises nothing
C12_ValidateConnection ==
    call.op = "validate_connection" =>
        /\ (call.exc = NoExc /\ call.ok) <=>
               (/\ call.resp.outcome = "response"
                /\ call.resp.status = HTTP_OK
                /\ call.resp.decode = "object"
                /\ "serial_number" \in DOMAIN get_state(call.resp).value)
        /\ ApiErrorResponse(call.resp) => (call.exc = NoExc /\ ~call.ok)

\* C12 witness: the GET was answered 401 and validate_connection returned false
C12_Witness ==
    /\ call.op = "validate_connection"
    /\ call.resp.outcome = "response"
    /\ call.resp.status = 401
    /\ call.exc = NoExc
    /\ ~call.ok

\* C13: close raises nothing, no session is closed by the client more than
\* once, and a close right after a close leaves the client and every session as
\* the first left them
C13_CloseIdempotent ==
    [][/\ call'.op = "close" => call'.exc = NoExc
       /\ \A i \in DOMAIN sessions' : sessions'[i].close_calls <= 1
       /\ (call.op = "close" /\ call'.op = "close")
              => (api' = api /\ sessions' = sessions)]_vars

\* C13 witness: close was called twice in a row on a client whose session was
\* open, and the session was closed once
C13_Witness ==
    /\ call.op = "close"
    /\ call.prev = "close"
    /\ api.session # 0
    /\ api.own_session
    /\ sessions[api.session].closed
    /\ sessions[api.session].close_calls = 1

\* C14: the client never closes a session it was given
C14_GivenSessionNotClosed ==
    \A i \in DOMAIN sessions : sessions[i].creator = 0 => sessions[i].close_calls = 0

\* C14 witness: the session given was closed by its owner, the client opened one
\* of its own in its place and close closed that one
C14_Witness ==
    /\ call.op = "close"
    /\ Len(sessions) >= 2
    /\ sessions[1].creator = 0
    /\ sessions[1].closed
    /\ sessions[2].creator = 1
    /\ sessions[2].closed
    /\ sessions[2].close_calls = 1

\* the POST body the claim gives for an entity action
ClaimedPost(op, option) ==
    CASE op = "laundry_off" -> [command |-> "OFF", args |-> EmptyMap]
      [] op = "laundry_on" -> [command |-> "PRG_WASH_AUTO", args |-> EmptyMap]
      [] op = "room_on" -> [command |-> "PRG_ROOM_ON", args |-> EmptyMap]
      [] op = "room_off" -> [command |-> "PRG_ROOM_OFF", args |-> EmptyMap]
      [] op = "select" /\ option = "wet" ->
             [command |-> "SET_TARGET_HUMIDITY", args |-> [level |-> 0]]
      [] op = "select" /\ option = "dry" ->
             [command |-> "SET_TARGET_HUMIDITY", args |-> [level |-> 1]]
      [] op = "select" /\ option = "extra_dry" ->
             [command |-> "SET_TARGET_HUMIDITY", args |-> [level |-> 2]]
      [] OTHER -> NoPost

\* C15: an action that sends a command issues one POST, its body the command name
\* and the arguments of the operation, and its outcome is send_command's for the
\* way the POST ended
C15_CommandPosts ==
    (ctl.pc # "idle" /\ ctl.posts > 0) =>
        /\ ctl.posts = 1
        /\ last_post = ClaimedPost(ctl.op, ctl.option)
        /\ ctl.pc # "posting" =>
               /\ (ctl.resp.outcome = "response" /\ ctl.resp.status # HTTP_OK)
                      => ctl.exc = SecomatAPIError
               /\ (ctl.resp.status = HTTP_OK /\ ctl.resp.decode = "object")
                      => (ctl.exc = NoExc
                          /\ (ctl.ret <=> Get(ctl.resp.body, "status", "") = "OK"))

\* C15 witness: turning room drying off posted PRG_ROOM_OFF with no arguments and
\* was rejected
C15_Witness ==
    /\ ctl.pc = "returned"
    /\ ctl.op = "room_off"
    /\ last_post = [command |-> "PRG_ROOM_OFF", args |-> EmptyMap]
    /\ ctl.exc = NoExc
    /\ ~ctl.ret

\* C16 as claimed: the Laundry Drying switch is on exactly when secomat_state is
\* above 0 and operating_mode is 1 (laundry_drying); it is off for the modes 0, 2
\* and 3 and when either field is absent
C16_LaundryIsOn ==
    call.op = "is_on" =>
        (call.ok <=> (/\ "secomat_state" \in DOMAIN call.value
                      /\ call.value["secomat_state"] > 0
                      /\ "operating_mode" \in DOMAIN call.value
                      /\ call.value["operating_mode"] = 1))

\* the level the claim gives for an option of the select
ClaimedLevel(option) ==
    CASE option = "wet" -> 0
      [] option = "dry" -> 1
      [] option = "extra_dry" -> 2

\* C17: selecting wet, dry or extra_dry posts SET_TARGET_HUMIDITY with the level
\* of the option (0 for wet), and current_option on a snapshot that carries that
\* level is the option; selecting anything else posts nothing and requests no
\* refresh
C17_SelectRoundTrip ==
    (ctl.op = "select" /\ ctl.pc # "idle") =>
        IF ctl.option \in {"wet", "dry", "extra_dry"}
        THEN /\ ctl.posts = 1
             /\ last_post.command = "SET_TARGET_HUMIDITY"
             /\ last_post.args = [level |-> ClaimedLevel(ctl.option)]
             /\ current_option([target_humidity_level |-> last_post.args["level"]])
                    = ctl.option
             /\ \A d \in Snapshots :
                    Get(d, "target_humidity_level", 3) = last_post.args["level"]
                        => current_option(d) = ctl.option
        ELSE /\ ctl.pc = "returned"
             /\ ctl.posts = 0
             /\ ~ctl.requested

\* C17 witness: wet was selected, level 0 was posted and accepted
C17_Witness ==
    /\ ctl.op = "select"
    /\ ctl.option = "wet"
    /\ ctl.pc = "returned"
    /\ last_post.args = [level |-> 0]
    /\ ctl.ret

\* C18 as claimed: in the user step with a token, an entry is created only if
\* validate_connection returned true, get_state succeeded and the serial is not
\* configured yet; a serial that is configured ends the flow as an abort and no
\* two entries have one serial; validate_connection returning false shows the
\* form with invalid_auth, any other exception shows it with unknown
C18_UserStep ==
    (flow.pc = "done" /\ flow.submitted) =>
        /\ flow.result = "create_entry"
               => (flow.valid /\ flow.fetched /\ ~flow.duplicate)
        /\ flow.duplicate => flow.result = "abort"
        /\ \A i, j \in DOMAIN flow.entries :
               flow.entries[i] = flow.entries[j] => i = j
        /\ (flow.exc = NoExc /\ ~flow.valid)
               => (flow.result = "form" /\ flow.error = "invalid_auth")
        /\ flow.exc \notin {NoExc, AbortFlow}
               => (flow.result = "form" /\ flow.error = "unknown")

====
